---- MODULE Spec2Model ----
(***************************************************************************)
(* PhishXAI backend: the /api/analyze request handler of backend/app.py    *)
(* (lazy model initialisation, input normalisation, guardrail fusion,      *)
(* explanation payload) and the threshold selection of                     *)
(* backend/train_model.py.                                                 *)
(*                                                                         *)
(* Probabilities are kept in hundredths (0.35 is 35, 0.60 is 60); a        *)
(* precision is kept as the pair <<true positives, predicted positives>>   *)
(* and compared by cross-multiplication, so no rounding is introduced.     *)
(* Strings are sequences of one-character strings.                         *)
(***************************************************************************)
EXTENDS Integers, Sequences, FiniteSets, TLC

VARIABLES
    \* ---- backend/app.py: process-wide state ----
    artifact,         \* os.path.exists(MODEL_PATH)
    SHAP_AVAILABLE,   \* import shap succeeded
    LIME_AVAILABLE,   \* import lime succeeded
    model,            \* "None" or "Loaded"
    shap_explainer,   \* "None" or "Built"
    lime_explainer,   \* "None" or "Built"
    loads,            \* number of completed joblib.load calls
    shapBuilds,       \* number of completed shap.Explainer constructions
    limeBuilds,       \* number of completed LimeTextExplainer constructions
    notFoundSeen,     \* some request has already failed on the missing artifact
    \* ---- backend/app.py: one entry per worker handling a request ----
    pc,               \* position of the worker inside analyze()
    req,              \* the request the worker is handling
    resp,             \* the response it produced
    \* ---- guardrail fusion taken alone (app.py lines 205-225) ----
    fin,              \* classifier output and scored text
    fout,             \* verdict, risk, confidence
    \* ---- backend/train_model.py ----
    val,              \* validation set: sequence of <<label, phish probability>>
    meta              \* what main() persisted

serverVars == <<artifact, SHAP_AVAILABLE, LIME_AVAILABLE, model, shap_explainer,
                lime_explainer, loads, shapBuilds, limeBuilds, notFoundSeen,
                pc, req, resp>>
fuseVars == <<fin, fout>>
trainVars == <<val, meta>>
vars == <<serverVars, fuseVars, trainVars>>

\* ------------------------------------------------------------------------
\* Bounds of the model
\* ------------------------------------------------------------------------
MaxPieces == 2      \* a scored text is built from at most this many pieces
MaxVal == 3         \* size of the validation set

\* ------------------------------------------------------------------------
\* Program constants
\* ------------------------------------------------------------------------
THRESHOLD == 35             \* app.py: THRESHOLD = 0.35
GUARDRAIL_FLOOR == 60       \* app.py: max(p_phish, 0.60)
MAX_TEXT_LEN == 20000
MAX_URL_LEN == 2048
TARGET_PRECISION == 95      \* train_model.py: target_precision=0.95
FALLBACK_THRESHOLD == 50    \* train_model.py: return 0.5, ...
SUSPICIOUS_FLOOR == 30      \* train_model.py: max(0.30, ...)
SUSPICIOUS_BAND == 15       \* train_model.py: phish_threshold - 0.15
ALLOWED_CHANNELS == {"email", "sms", "url"}

KEYWORDS ==
    { <<"u","r","g","e","n","t">>,
      <<"v","e","r","i","f","y">>,
      <<"p","a","s","s","w","o","r","d">>,
      <<"l","o","g","i","n">>,
      <<"i","n","v","o","i","c","e">>,
      <<"p","a","y","m","e","n","t">>,
      <<"a","c","c","o","u","n","t">>,
      <<"t","r","a","n","s","a","c","t","i","o","n">> }

\* ------------------------------------------------------------------------
\* Strings
\* ------------------------------------------------------------------------
UpperToLower ==
    ("L" :> "l") @@ ("O" :> "o") @@ ("G" :> "g") @@ ("I" :> "i") @@
    ("N" :> "n") @@ ("V" :> "v") @@ ("P" :> "p") @@ ("H" :> "h")

\* str.lower()
LowerChar(c) == IF c \in DOMAIN UpperToLower THEN UpperToLower[c] ELSE c
lower(s) == [i \in 1..Len(s) |-> LowerChar(s[i])]

\* k in blob
Contains(blob, k) ==
    \E i \in 1..(Len(blob) - Len(k) + 1) : SubSeq(blob, i, i + Len(k) - 1) = k

\* str.strip()
RECURSIVE lstrip(_)
lstrip(s) == IF s # <<>> /\ Head(s) = " " THEN lstrip(Tail(s)) ELSE s
RECURSIVE rstrip(_)
rstrip(s) == IF s # <<>> /\ s[Len(s)] = " " THEN rstrip(SubSeq(s, 1, Len(s) - 1)) ELSE s
strip(s) == rstrip(lstrip(s))

Max(a, b) == IF a >= b THEN a ELSE b

\* ------------------------------------------------------------------------
\* Guardrail fusion: app.py lines 216-225
\* ------------------------------------------------------------------------
keyword_hit(input_text) == \E k \in KEYWORDS : Contains(lower(input_text), k)

\* the override applied whatever the raw probability is
EffectivePhish_unguarded(p_phish, hit) ==
    IF hit THEN Max(p_phish, GUARDRAIL_FLOOR) ELSE p_phish

\* the value of p_phish after the guardrail override
EffectivePhish(p_phish, hit) ==
    IF hit /\ p_phish < THRESHOLD THEN Max(p_phish, GUARDRAIL_FLOOR) ELSE p_phish

\* the threshold compared exclusively
Verdict_exclusive(p_phish, hit) ==
    IF p_phish > THRESHOLD \/ hit THEN "Suspicious" ELSE "Safe"

Verdict(p_phish, hit) ==
    IF p_phish >= THRESHOLD \/ hit THEN "Suspicious" ELSE "Safe"

Confidence(p_safe, p_phish) == Max(p_safe, p_phish)

Fuse(p_safe, p_phish, input_text) ==
    LET hit == keyword_hit(input_text)
        eff == EffectivePhish(p_phish, hit)
    IN  [verdict |-> Verdict(eff, hit),
         risk |-> eff,
         confidence |-> Confidence(p_safe, eff),
         phish |-> eff,
         safe |-> p_safe,
         keyword |-> hit]

\* ------------------------------------------------------------------------
\* Input normalisation: app.py lines 72-98
\* ------------------------------------------------------------------------
\* normalize_input without its emptiness checks
normalize_input_lenient(channel, text, url) ==
    LET t == strip(text)
        u == strip(url)
    IN  IF channel = "url"
        THEN LET candidate == IF u # <<>> THEN u ELSE t
             IN  [raises |-> FALSE, input_text |-> candidate,
                  clean_text |-> <<>>, clean_url |-> candidate]
        ELSE [raises |-> FALSE, input_text |-> t,
              clean_text |-> t, clean_url |-> <<>>]

\* Result of normalize_input: either the ValueError it raises or the tuple
\* (input_text, clean_text, clean_url) it returns.
normalize_input(channel, text, url) ==
    LET t == strip(text)
        u == strip(url)
    IN  IF channel = "url"
        THEN LET candidate == IF u # <<>> THEN u ELSE t
             IN  IF candidate = <<>> THEN [raises |-> TRUE]
                 ELSE IF Len(candidate) > MAX_URL_LEN THEN [raises |-> TRUE]
                 ELSE [raises |-> FALSE, input_text |-> candidate,
                       clean_text |-> <<>>, clean_url |-> candidate]
        ELSE IF t = <<>> THEN [raises |-> TRUE]
             ELSE IF Len(t) > MAX_TEXT_LEN THEN [raises |-> TRUE]
             ELSE [raises |-> FALSE, input_text |-> t,
                   clean_text |-> t, clean_url |-> <<>>]

\* ------------------------------------------------------------------------
\* Requests and responses of /api/analyze
\* ------------------------------------------------------------------------
Workers == {"w1", "w2"}

ReqChannels == ALLOWED_CHANNELS
ReqTexts == { <<>>, <<" ">>, <<"L","o","g","i","n">> }
ReqUrls == { <<>>, <<"h","i">> }
Requests == [channel : ReqChannels, text : ReqTexts, url : ReqUrls]
NoReq == [channel |-> "none", text |-> <<>>, url |-> <<>>]

\* what model.predict_proba returns: <<p_safe, p_phish>>
ProbaOut == { <<90, 10>>, <<65, 35>> }

\* exceptions a failing library call can raise, by the except clause of
\* analyze() that catches them
ExcKinds == {"FileNotFoundError", "ValueError", "Exception"}

NoResp ==
    [status |-> 0, error |-> "none", raisedAt |-> "none",
     verdict |-> "none", risk |-> 0, confidence |-> 0,
     shap |-> "absent", lime |-> "absent", warning |-> FALSE,
     shapOut |-> "none", limeOut |-> "none"]

\* error_response(...)
error_response(status, error, at) ==
    [NoResp EXCEPT !.status = status, !.error = error, !.raisedAt = at]

\* the except clauses of analyze(), lines 196-201
HandleInitError(kind, at) ==
    IF kind = "FileNotFoundError" THEN error_response(500, "FileNotFoundError", at)
    ELSE IF kind = "ValueError" THEN error_response(400, "ValueError", at)
    ELSE error_response(500, "Exception", at)

\* shap_explain_text / lime_explain_text: None when the backend is not
\* available, otherwise the token list or the exception of the library call
ExplainOutcomes(available, explainer) ==
    IF ~(available /\ explainer # "None") THEN {"None"} ELSE {"tokens", "raise"}

\* the try block of lines 239-251 around both explanation calls
xai_payload(shapRes, limeRes) ==
    IF shapRes = "raise" \/ limeRes = "raise"
    THEN [shap |-> "absent", lime |-> "absent", warning |-> TRUE]
    ELSE [shap |-> IF shapRes = "tokens" THEN "present" ELSE "absent",
          lime |-> IF limeRes = "tokens" THEN "present" ELSE "absent",
          warning |-> FALSE]

\* ------------------------------------------------------------------------
\* analyze(): one worker handling one request
\* ------------------------------------------------------------------------
Reply(t, r) ==
    /\ resp' = [resp EXCEPT ![t] = r]
    /\ pc' = [pc EXCEPT ![t] = "done"]

Goto(t, l) ==
    /\ pc' = [pc EXCEPT ![t] = l]
    /\ UNCHANGED resp

\* lines 170-174: the request is not JSON
ReceiveNotJson(t) ==
    /\ pc[t] = "idle"
    /\ req' = [req EXCEPT ![t] = NoReq]
    /\ Reply(t, error_response(415, "NotJson", "json"))
    /\ UNCHANGED <<artifact, SHAP_AVAILABLE, LIME_AVAILABLE, model, shap_explainer,
                   lime_explainer, loads, shapBuilds, limeBuilds, notFoundSeen>>
    /\ UNCHANGED <<fuseVars, trainVars>>

\* lines 176-178: the body does not parse
ReceiveMalformed(t) ==
    /\ pc[t] = "idle"
    /\ req' = [req EXCEPT ![t] = NoReq]
    /\ Reply(t, error_response(400, "MalformedJson", "json"))
    /\ UNCHANGED <<artifact, SHAP_AVAILABLE, LIME_AVAILABLE, model, shap_explainer,
                   lime_explainer, loads, shapBuilds, limeBuilds, notFoundSeen>>
    /\ UNCHANGED <<fuseVars, trainVars>>

\* lines 181-187: the channel is not allowed
ReceiveBadChannel(t) ==
    /\ pc[t] = "idle"
    /\ \E c \in {"fax"} :
         /\ c \notin ALLOWED_CHANNELS
         /\ req' = [req EXCEPT ![t] = [NoReq EXCEPT !.channel = c]]
    /\ Reply(t, error_response(400, "InvalidChannel", "channel"))
    /\ UNCHANGED <<artifact, SHAP_AVAILABLE, LIME_AVAILABLE, model, shap_explainer,
                   lime_explainer, loads, shapBuilds, limeBuilds, notFoundSeen>>
    /\ UNCHANGED <<fuseVars, trainVars>>

\* lines 181-194: a JSON request with an allowed channel enters the try block
Receive(t) ==
    /\ pc[t] = "idle"
    /\ \E r \in Requests :
         /\ r.channel \in ALLOWED_CHANNELS
         /\ req' = [req EXCEPT ![t] = r]
    /\ Goto(t, "ensure")
    /\ UNCHANGED <<artifact, SHAP_AVAILABLE, LIME_AVAILABLE, model, shap_explainer,
                   lime_explainer, loads, shapBuilds, limeBuilds, notFoundSeen>>
    /\ UNCHANGED <<fuseVars, trainVars>>

\* ensure_model_loaded, line 55: the model is already there
EnsureModelPresent(t) ==
    /\ pc[t] = "ensure"
    /\ model # "None"
    /\ Goto(t, "check_shap")
    /\ UNCHANGED <<artifact, SHAP_AVAILABLE, LIME_AVAILABLE, model, shap_explainer,
                   lime_explainer, loads, shapBuilds, limeBuilds, notFoundSeen, req>>
    /\ UNCHANGED <<fuseVars, trainVars>>

\* the failed lookup remembered in the model global
RaiseModelNotFound_cached(t) ==
    /\ pc[t] = "ensure"
    /\ model = "None"
    /\ ~artifact
    /\ Reply(t, HandleInitError("FileNotFoundError", "exists"))
    /\ notFoundSeen' = TRUE
    /\ model' = "Failed"
    /\ UNCHANGED <<artifact, SHAP_AVAILABLE, LIME_AVAILABLE, shap_explainer,
                   lime_explainer, loads, shapBuilds, limeBuilds, req>>
    /\ UNCHANGED <<fuseVars, trainVars>>

\* ensure_model_loaded, lines 55-59, caught at lines 196-197
RaiseModelNotFound(t) ==
    /\ pc[t] = "ensure"
    /\ model = "None"
    /\ ~artifact
    /\ Reply(t, HandleInitError("FileNotFoundError", "exists"))
    /\ notFoundSeen' = TRUE
    /\ UNCHANGED <<artifact, SHAP_AVAILABLE, LIME_AVAILABLE, model, shap_explainer,
                   lime_explainer, loads, shapBuilds, limeBuilds, req>>
    /\ UNCHANGED <<fuseVars, trainVars>>

\* ensure_model_loaded, lines 55-56: the model is None and the file exists
EnsureModelAbsent(t) ==
    /\ pc[t] = "ensure"
    /\ model = "None"
    /\ artifact
    /\ Goto(t, "load")
    /\ UNCHANGED <<artifact, SHAP_AVAILABLE, LIME_AVAILABLE, model, shap_explainer,
                   lime_explainer, loads, shapBuilds, limeBuilds, notFoundSeen, req>>
    /\ UNCHANGED <<fuseVars, trainVars>>

\* ensure_model_loaded, line 60: model = joblib.load(MODEL_PATH)
LoadModel(t) ==
    /\ pc[t] = "load"
    /\ model' = "Loaded"
    /\ loads' = loads + 1
    /\ Goto(t, "check_shap")
    /\ UNCHANGED <<artifact, SHAP_AVAILABLE, LIME_AVAILABLE, shap_explainer,
                   lime_explainer, shapBuilds, limeBuilds, notFoundSeen, req>>
    /\ UNCHANGED <<fuseVars, trainVars>>

\* line 60 raises (unreadable artifact), caught at lines 196-201
LoadModelFails(t) ==
    /\ pc[t] = "load"
    /\ \E kind \in ExcKinds : Reply(t, HandleInitError(kind, "load"))
    /\ UNCHANGED <<artifact, SHAP_AVAILABLE, LIME_AVAILABLE, model, shap_explainer,
                   lime_explainer, loads, shapBuilds, limeBuilds, notFoundSeen, req>>
    /\ UNCHANGED <<fuseVars, trainVars>>

\* ensure_model_loaded, line 63
CheckShap(t) ==
    /\ pc[t] = "check_shap"
    /\ Goto(t, IF SHAP_AVAILABLE /\ shap_explainer = "None"
               THEN "build_shap" ELSE "check_lime")
    /\ UNCHANGED <<artifact, SHAP_AVAILABLE, LIME_AVAILABLE, model, shap_explainer,
                   lime_explainer, loads, shapBuilds, limeBuilds, notFoundSeen, req>>
    /\ UNCHANGED <<fuseVars, trainVars>>

\* ensure_model_loaded, lines 64-65
BuildShap(t) ==
    /\ pc[t] = "build_shap"
    /\ shap_explainer' = "Built"
    /\ shapBuilds' = shapBuilds + 1
    /\ Goto(t, "check_lime")
    /\ UNCHANGED <<artifact, SHAP_AVAILABLE, LIME_AVAILABLE, model,
                   lime_explainer, loads, limeBuilds, notFoundSeen, req>>
    /\ UNCHANGED <<fuseVars, trainVars>>

\* lines 64-65 raise, caught at lines 196-201
BuildShapFails(t) ==
    /\ pc[t] = "build_shap"
    /\ \E kind \in ExcKinds : Reply(t, HandleInitError(kind, "shap_init"))
    /\ UNCHANGED <<artifact, SHAP_AVAILABLE, LIME_AVAILABLE, model, shap_explainer,
                   lime_explainer, loads, shapBuilds, limeBuilds, notFoundSeen, req>>
    /\ UNCHANGED <<fuseVars, trainVars>>

\* ensure_model_loaded, line 68
CheckLime(t) ==
    /\ pc[t] = "check_lime"
    /\ Goto(t, IF LIME_AVAILABLE /\ lime_explainer = "None"
               THEN "build_lime" ELSE "score")
    /\ UNCHANGED <<artifact, SHAP_AVAILABLE, LIME_AVAILABLE, model, shap_explainer,
                   lime_explainer, loads, shapBuilds, limeBuilds, notFoundSeen, req>>
    /\ UNCHANGED <<fuseVars, trainVars>>

\* ensure_model_loaded, line 69
BuildLime(t) ==
    /\ pc[t] = "build_lime"
    /\ lime_explainer' = "Built"
    /\ limeBuilds' = limeBuilds + 1
    /\ Goto(t, "score")
    /\ UNCHANGED <<artifact, SHAP_AVAILABLE, LIME_AVAILABLE, model,
                   shap_explainer, loads, shapBuilds, notFoundSeen, req>>
    /\ UNCHANGED <<fuseVars, trainVars>>

\* line 69 raises, caught at lines 196-201
BuildLimeFails(t) ==
    /\ pc[t] = "build_lime"
    /\ \E kind \in ExcKinds : Reply(t, HandleInitError(kind, "lime_init"))
    /\ UNCHANGED <<artifact, SHAP_AVAILABLE, LIME_AVAILABLE, model, shap_explainer,
                   lime_explainer, loads, shapBuilds, limeBuilds, notFoundSeen, req>>
    /\ UNCHANGED <<fuseVars, trainVars>>

\* lines 195-269: normalize_input, prediction, guardrail, explanations, response
Score(t) ==
    /\ pc[t] = "score"
    /\ LET n == normalize_input(req[t].channel, req[t].text, req[t].url)
       IN  IF n.raises
           THEN Reply(t, HandleInitError("ValueError", "normalize"))
           ELSE \E proba \in ProbaOut :
                \E shapRes \in ExplainOutcomes(SHAP_AVAILABLE, shap_explainer) :
                \E limeRes \in ExplainOutcomes(LIME_AVAILABLE, lime_explainer) :
                  LET f == Fuse(proba[1], proba[2], n.input_text)
                      x == xai_payload(shapRes, limeRes)
                  IN  Reply(t, [status |-> 200, error |-> "none", raisedAt |-> "none",
                                verdict |-> f.verdict, risk |-> f.risk,
                                confidence |-> f.confidence,
                                shap |-> x.shap, lime |-> x.lime,
                                warning |-> x.warning,
                                shapOut |-> shapRes, limeOut |-> limeRes])
    /\ UNCHANGED <<artifact, SHAP_AVAILABLE, LIME_AVAILABLE, model, shap_explainer,
                   lime_explainer, loads, shapBuilds, limeBuilds, notFoundSeen, req>>
    /\ UNCHANGED <<fuseVars, trainVars>>

\* the response has been sent; the worker takes the next request
Finish(t) ==
    /\ pc[t] = "done"
    /\ pc' = [pc EXCEPT ![t] = "idle"]
    /\ req' = [req EXCEPT ![t] = NoReq]
    /\ resp' = [resp EXCEPT ![t] = NoResp]
    /\ UNCHANGED <<artifact, SHAP_AVAILABLE, LIME_AVAILABLE, model, shap_explainer,
                   lime_explainer, loads, shapBuilds, limeBuilds, notFoundSeen>>
    /\ UNCHANGED <<fuseVars, trainVars>>

\* the model file is put in place (python train_model.py, deployment)
ArtifactAppears ==
    /\ ~artifact
    /\ artifact' = TRUE
    /\ UNCHANGED <<SHAP_AVAILABLE, LIME_AVAILABLE, model, shap_explainer,
                   lime_explainer, loads, shapBuilds, limeBuilds, notFoundSeen,
                   pc, req, resp>>
    /\ UNCHANGED <<fuseVars, trainVars>>

ServerStart ==
    /\ artifact \in BOOLEAN
    /\ SHAP_AVAILABLE \in BOOLEAN
    /\ LIME_AVAILABLE \in BOOLEAN
    /\ model = "None"
    /\ shap_explainer = "None"
    /\ lime_explainer = "None"
    /\ loads = 0
    /\ shapBuilds = 0
    /\ limeBuilds = 0
    /\ notFoundSeen = FALSE
    /\ pc = [t \in Workers |-> "idle"]
    /\ req = [t \in Workers |-> NoReq]
    /\ resp = [t \in Workers |-> NoResp]

NoFuse == [p_safe |-> 0, p_phish |-> 0, text |-> <<>>]
NoVerdict == [done |-> FALSE]
NoMeta == [done |-> FALSE]

Init ==
    /\ ServerStart
    /\ fin = NoFuse
    /\ fout = NoVerdict
    /\ val = <<>>
    /\ meta = NoMeta

Next ==
    \/ \E t \in Workers : ReceiveNotJson(t)
    \/ \E t \in Workers : ReceiveMalformed(t)
    \/ \E t \in Workers : ReceiveBadChannel(t)
    \/ \E t \in Workers : Receive(t)
    \/ \E t \in Workers : EnsureModelPresent(t)
    \/ \E t \in Workers : RaiseModelNotFound(t)
    \/ \E t \in Workers : EnsureModelAbsent(t)
    \/ \E t \in Workers : LoadModel(t)
    \/ \E t \in Workers : LoadModelFails(t)
    \/ \E t \in Workers : CheckShap(t)
    \/ \E t \in Workers : BuildShap(t)
    \/ \E t \in Workers : BuildShapFails(t)
    \/ \E t \in Workers : CheckLime(t)
    \/ \E t \in Workers : BuildLime(t)
    \/ \E t \in Workers : BuildLimeFails(t)
    \/ \E t \in Workers : Score(t)
    \/ \E t \in Workers : Finish(t)
    \/ ArtifactAppears

Spec == Init /\ [][Next]_vars

\* ------------------------------------------------------------------------
\* Guardrail fusion on its own: every classifier output on a 0.05 grid
\* against every text built from the pieces below
\* ------------------------------------------------------------------------
Probs == {5 * i : i \in 0..20}

Pieces ==
    { <<"l","o","g">>, <<"i","n">>, <<"L","O","G">>, <<"I","N">>,
      <<" ">>, <<"h","i">>, <<"V","e","r","i","f","y">> }

RECURSIVE TextsOfLen(_)
TextsOfLen(n) ==
    IF n = 0 THEN { <<>> }
    ELSE { t \o q : t \in TextsOfLen(n - 1), q \in Pieces }

Texts == UNION { TextsOfLen(n) : n \in 0..MaxPieces }

ServerOff ==
    /\ ServerStart
    /\ ~artifact
    /\ ~SHAP_AVAILABLE
    /\ ~LIME_AVAILABLE

InitFuse ==
    /\ ServerOff
    /\ fin \in [p_safe : Probs, p_phish : Probs, text : Texts]
    /\ fout = NoVerdict
    /\ val = <<>>
    /\ meta = NoMeta

\* lines 205-225 applied to one classifier output and one text
FuseStep ==
    /\ ~fout.done
    /\ fout' = [done |-> TRUE, out |-> Fuse(fin.p_safe, fin.p_phish, fin.text)]
    /\ UNCHANGED <<fin, serverVars, trainVars>>

NextFuse == FuseStep

SpecFuse == InitFuse /\ [][NextFuse]_vars

\* ------------------------------------------------------------------------
\* backend/train_model.py
\* ------------------------------------------------------------------------
Scores == {10, 20, 40, 90}
Labels == {0, 1}

\* the validation split is stratified: both labels occur in it
ValSets ==
    {v \in UNION { [1..n -> Labels \X Scores] : n \in 1..MaxVal } :
        \A l \in Labels : \E i \in DOMAIN v : v[i][1] = l}

\* the distinct scores in increasing order
RECURSIVE SortedSeq(_)
SortedSeq(S) ==
    IF S = {} THEN <<>>
    ELSE LET m == CHOOSE x \in S : \A y \in S : x <= y
         IN  <<m>> \o SortedSeq(S \ {m})

\* precision of the predictions {p >= t}: <<true positives, predicted positives>>
PrecisionAt(v, t) ==
    << Cardinality({i \in DOMAIN v : v[i][2] >= t /\ v[i][1] = 1}),
       Cardinality({i \in DOMAIN v : v[i][2] >= t}) >>

\* recall of the predictions {p >= t}: <<true positives, positives>>;
\* without any positive sample the library reports a recall of 1
RecallAt(v, t) ==
    LET pos == Cardinality({i \in DOMAIN v : v[i][1] = 1})
    IN  IF pos = 0 THEN <<1, 1>>
        ELSE << Cardinality({i \in DOMAIN v : v[i][2] >= t /\ v[i][1] = 1}), pos >>

\* sklearn.metrics.precision_recall_curve: precisions[i] and recalls[i] belong
\* to thresholds[i]; one last element (precision 1, recall 0) has no threshold
precision_recall_curve(v) ==
    LET th == SortedSeq({v[i][2] : i \in DOMAIN v})
        n == Len(th)
    IN  [thresholds |-> th,
         precisions |-> [i \in 1..(n + 1) |->
                            IF i <= n THEN PrecisionAt(v, th[i]) ELSE <<1, 1>>],
         recalls |-> [i \in 1..(n + 1) |->
                            IF i <= n THEN RecallAt(v, th[i]) ELSE <<0, 1>>]]

\* prec >= target_precision
MeetsTarget(prec) == prec[1] * 100 >= TARGET_PRECISION * prec[2]

\* the element of precisions and recalls the loop reads for thresholds[i]
\* (0-based precisions[i + 1] for the 0-based i of enumerate(thresholds))
CurveIndex(i) == i + 1

\* the loop of lines 36-41, from the 1-based position i on
RECURSIVE FirstMeeting(_, _)
FirstMeeting(c, i) ==
    IF i > Len(c.thresholds) THEN [found |-> FALSE]
    ELSE IF MeetsTarget(c.precisions[CurveIndex(i)])
         THEN [found |-> TRUE, t |-> c.thresholds[i],
               prec |-> c.precisions[CurveIndex(i)],
               rec |-> c.recalls[CurveIndex(i)]]
         ELSE FirstMeeting(c, i + 1)

choose_threshold(v) ==
    LET c == precision_recall_curve(v)
        best == FirstMeeting(c, 1)
    IN  IF ~best.found
        THEN [t |-> FALLBACK_THRESHOLD,
              prec |-> c.precisions[Len(c.precisions)],
              rec |-> c.recalls[Len(c.recalls)]]
        ELSE [t |-> best.t, prec |-> best.prec, rec |-> best.rec]

\* line 102
suspicious_threshold(phish_threshold) ==
    Max(SUSPICIOUS_FLOOR, phish_threshold - SUSPICIOUS_BAND)

InitTrain ==
    /\ ServerOff
    /\ fin = NoFuse
    /\ fout = NoVerdict
    /\ val \in ValSets
    /\ meta = NoMeta

\* main(), lines 97-126: choose the thresholds and write phish_meta.json
Main ==
    /\ ~meta.done
    /\ LET r == choose_threshold(val)
       IN  meta' = [done |-> TRUE,
                    phish |-> r.t,
                    suspicious |-> suspicious_threshold(r.t),
                    prec |-> r.prec,
                    rec |-> r.rec]
    /\ UNCHANGED <<val, serverVars, fuseVars>>

NextTrain == Main

SpecTrain == InitTrain /\ [][NextTrain]_vars

\* ------------------------------------------------------------------------
\* Properties
\* ------------------------------------------------------------------------

\* C1: the verdict is Suspicious exactly when the effective phish probability
\* (the reported risk) is at or above the threshold or a guardrail keyword
\* occurs in the lower-cased text, and Safe otherwise; a raw probability equal
\* to the threshold, without keyword, gives Suspicious.
C1_VerdictIffThresholdOrKeyword ==
    fout.done =>
        LET hit == \E k \in KEYWORDS : Contains(lower(fin.text), k)
            sus == fout.out.risk >= THRESHOLD \/ hit
        IN  /\ fout.out.verdict = (IF sus THEN "Suspicious" ELSE "Safe")
            /\ (fin.p_phish = THRESHOLD /\ ~hit) => fout.out.verdict = "Suspicious"
            /\ (fin.p_phish < THRESHOLD /\ ~hit) => fout.out.verdict = "Safe"

C1_Witness ==
    /\ fout.done
    /\ fin.p_phish = THRESHOLD
    /\ ~keyword_hit(fin.text)
    /\ fout.out.verdict = "Suspicious"

\* C2: the reported risk is max(p_phish, 0.60) when a keyword is hit and the
\* raw p_phish is below the threshold, the raw p_phish in every other case,
\* and the confidence is the larger of p_safe and the risk.
C2_RiskAndConfidence ==
    fout.done =>
        LET hit == \E k \in KEYWORDS : Contains(lower(fin.text), k)
        IN  /\ (hit /\ fin.p_phish < THRESHOLD) =>
                  /\ fout.out.risk >= fin.p_phish
                  /\ fout.out.risk >= GUARDRAIL_FLOOR
                  /\ fout.out.risk \in {fin.p_phish, GUARDRAIL_FLOOR}
            /\ (~hit \/ fin.p_phish >= THRESHOLD) => fout.out.risk = fin.p_phish
            /\ fout.out.confidence >= fin.p_safe
            /\ fout.out.confidence >= fout.out.risk
            /\ fout.out.confidence \in {fin.p_safe, fout.out.risk}

C2_Witness ==
    /\ fout.done
    /\ keyword_hit(fin.text)
    /\ fin.p_phish < THRESHOLD
    /\ fout.out.risk = GUARDRAIL_FLOOR
    /\ fout.out.confidence = fin.p_safe
    /\ fin.p_safe > GUARDRAIL_FLOOR

\* C3: the classifier artifact is loaded at most once in the process and each
\* explanation backend is constructed at most once, whatever the interleaving
\* of the first calls of ensure_model_loaded.
C3_LoadedAtMostOnce ==
    /\ loads <= 1
    /\ shapBuilds <= 1
    /\ limeBuilds <= 1

\* C4: when exactly one explanation backend raises during a request, the
\* request still returns its verdict, the failing backend's token list is
\* absent and the other backend's token list is present.
C4_FailureIsolatedPerBackend ==
    \A t \in Workers :
        (pc[t] = "done" /\ resp[t].raisedAt = "none" /\ req[t] \in Requests) =>
            /\ (resp[t].shapOut = "raise" /\ resp[t].limeOut = "tokens") =>
                  /\ resp[t].status = 200
                  /\ resp[t].verdict \in {"Safe", "Suspicious"}
                  /\ resp[t].shap = "absent"
                  /\ resp[t].lime = "present"
            /\ (resp[t].limeOut = "raise" /\ resp[t].shapOut = "tokens") =>
                  /\ resp[t].status = 200
                  /\ resp[t].verdict \in {"Safe", "Suspicious"}
                  /\ resp[t].lime = "absent"
                  /\ resp[t].shap = "present"

\* C8: a request during which the construction of an explanation backend
\* fails, after the classifier was loaded, still returns a verdict.
C8_BackendInitFailureNotFatal ==
    \A t \in Workers :
        (pc[t] = "done" /\ resp[t].raisedAt \in {"shap_init", "lime_init"}) =>
            /\ resp[t].status = 200
            /\ resp[t].verdict \in {"Safe", "Suspicious"}

\* C9: a request that finds the model unloaded and the artifact missing fails
\* with the server-side fault of the FileNotFoundError handler, carries no
\* verdict and no token list, and leaves the model uninitialised; a request
\* that finds the model unloaded and the artifact present goes on to load it,
\* whatever failed before, and the load sets the model.
C9_MissingArtifactFailsAndIsRetried ==
    [][\A t \in Workers :
         /\ (pc[t] = "ensure" /\ pc'[t] = "done") =>
               /\ ~artifact
               /\ resp'[t].status = 500
               /\ resp'[t].error = "FileNotFoundError"
               /\ resp'[t].verdict = "none"
               /\ resp'[t].shap = "absent"
               /\ resp'[t].lime = "absent"
               /\ model = "None"
               /\ model' = "None"
         /\ (pc[t] = "ensure" /\ pc'[t] # "ensure" /\ model = "None" /\ artifact) =>
               pc'[t] = "load"
         /\ (pc[t] = "load" /\ pc'[t] \notin {"load", "done"}) =>
               model' = "Loaded"
         /\ (pc[t] = "score" /\ pc'[t] = "done" /\ resp'[t].status = 200) =>
               /\ model = "Loaded"
               /\ resp'[t].verdict \in {"Safe", "Suspicious"}
      ]_vars

C9_Witness ==
    /\ notFoundSeen
    /\ model = "Loaded"
    /\ \E t \in Workers :
         /\ pc[t] = "done"
         /\ resp[t].status = 200
         /\ resp[t].verdict \in {"Safe", "Suspicious"}

\* the scoring string of the request is empty after normalisation
EmptyScoring(r) ==
    /\ r.channel \in ALLOWED_CHANNELS
    /\ IF r.channel = "url" THEN strip(r.url) = <<>> /\ strip(r.text) = <<>>
       ELSE strip(r.text) = <<>>

\* C10 as stated: every request whose scoring string is empty is rejected
\* with InvalidInput by the normaliser, whether or not the artifact exists.
C10_EmptyAlwaysInvalidInput ==
    \A t \in Workers :
        (pc[t] = "done" /\ EmptyScoring(req[t])) =>
            /\ resp[t].status = 400
            /\ resp[t].error = "ValueError"
            /\ resp[t].raisedAt = "normalize"

\* C10 amended: initialisation precedes normalisation. A request whose
\* scoring string is empty never gets a verdict; the normaliser rejects it
\* with InvalidInput only once the model is loaded, and with the model
\* unloaded and the artifact missing it fails with the server-side fault of
\* the missing model instead. Normalisation is reached only with a loaded
\* model.
C10_EmptyRejectedAfterInit ==
    \A t \in Workers :
        /\ (pc[t] = "score") => model = "Loaded"
        /\ (pc[t] = "done" /\ EmptyScoring(req[t])) =>
              /\ resp[t].verdict = "none"
              /\ resp[t].status \in {400, 500}
              /\ resp[t].raisedAt \in {"exists", "load", "shap_init",
                                       "lime_init", "normalize"}
              /\ (resp[t].raisedAt = "normalize") =>
                    /\ model = "Loaded"
                    /\ resp[t].status = 400
                    /\ resp[t].error = "ValueError"
              /\ (resp[t].raisedAt = "exists") =>
                    /\ resp[t].status = 500
                    /\ resp[t].error = "FileNotFoundError"

C10_Witness ==
    \E t \in Workers :
        /\ pc[t] = "done"
        /\ EmptyScoring(req[t])
        /\ resp[t].raisedAt = "exists"
        /\ resp[t].status = 500
        /\ model = "None"

\* the thresholds of the precision-recall curve whose own precision, the
\* precision of the predictions {p >= t}, reaches the target
Qualifying(v) ==
    {t \in {v[i][2] : i \in DOMAIN v} : MeetsTarget(PrecisionAt(v, t))}

\* C5: when some candidate threshold reaches the target precision, the chosen
\* threshold is the lowest such threshold and the precision achieved at it is
\* at least the target.
C5_LowestQualifyingThreshold ==
    (meta.done /\ Qualifying(val) # {}) =>
        /\ meta.phish \in Qualifying(val)
        /\ \A t \in Qualifying(val) : meta.phish <= t
        /\ MeetsTarget(PrecisionAt(val, meta.phish))
        /\ meta.prec = PrecisionAt(val, meta.phish)

\* C6: when no candidate threshold reaches the target precision, the chosen
\* threshold is the fallback 0.5.
C6_FallbackWhenUnreachable ==
    (meta.done /\ Qualifying(val) = {}) => meta.phish = FALLBACK_THRESHOLD

\* C7: the persisted thresholds satisfy suspicious = max(0.30, phish - 0.15)
\* and suspicious <= phish, both within [0, 1].
C7_SuspiciousNotAbovePhish ==
    meta.done =>
        /\ meta.suspicious = Max(SUSPICIOUS_FLOOR, meta.phish - SUSPICIOUS_BAND)
        /\ meta.suspicious <= meta.phish
        /\ meta.suspicious \in 0..100
        /\ meta.phish \in 0..100

====
